---- MODULE Spec2Model ----
(***************************************************************************)
(* Model of bot.py: the market report builder (build_report), the text     *)
(* chunker (chunk_text), the Telegram transport (send_to_telegram) and the  *)
(* top-level run (main).                                                    *)
(*                                                                          *)
(* Conventions.                                                             *)
(*  - A text is a sequence of one-character strings; NL is "\n".  Python's  *)
(*    0-based indices are kept: cur[:cut] is SubSeq(cur, 1, cut).           *)
(*  - A Python value that may be None is None == <<>> or Some(v) == <<v>>.  *)
(*  - A dict is a function whose DOMAIN is its key set.                     *)
(*  - Money and volumes are integers in the provider's unit, percent        *)
(*    changes are integers in percent.                                      *)
(*  - Each function is cut into steps at its loops and calls; pc is the     *)
(*    position of the single thread of control.                             *)
(***************************************************************************)
EXTENDS Integers, Sequences, FiniteSets, TLC

VARIABLES
    entry,      \* the function the run entered: "chunk_text", "send_to_telegram", "main"
    pc,         \* position of control
    s,          \* chunk_text: argument s
    limit,      \* chunk_text: argument limit
    cur,        \* chunk_text: remaining text
    chunks,     \* chunk_text: chunks cut so far / returned list
    text,       \* send_to_telegram: argument text
    BOT_TOKEN,  \* TRUE iff the BOT_TOKEN setting is a non-empty string
    CHAT_ID,    \* TRUE iff the CHAT_ID setting is a non-empty string
    parts,      \* send_to_telegram: the chunks to post
    i,          \* send_to_telegram: 1-based index of the next part
    ok,         \* send_to_telegram: running success flag
    posts,      \* texts handed to requests.post, in call order
    replies,    \* outcome of each requests.post, in call order
    sent,       \* value returned by send_to_telegram (None before it returns)
    stdout,     \* what print() wrote, in order
    vns_on,     \* TRUE iff (vns is not None and USE_VNSTOCK)
    idx_info,   \* build_report: idx_info
    fmarket,    \* build_report: fmarket
    lines,      \* build_report: lines
    k,          \* build_report: 1-based position in SYMBOLS of the running loop
    info,       \* build_report: info of the latest yf_get_symbol call
    alerts,     \* build_report: alerts
    calls,      \* symbols passed to yf_get_symbol, in call order
    report,     \* main: report (None until build_report returned)
    raised,     \* TRUE iff build_report raised
    deviations  \* number of provider answers so far that were not the usual one

vars == <<entry, pc, s, limit, cur, chunks, text, BOT_TOKEN, CHAT_ID, parts, i,
          ok, posts, replies, sent, stdout, vns_on, idx_info, fmarket, lines,
          k, info, alerts, calls, report, raised, deviations>>

chunkVars  == <<s, limit, cur, chunks>>
sendVars   == <<text, parts, i, ok, posts, replies, sent>>
configVars == <<BOT_TOKEN, CHAT_ID, vns_on>>
reportVars == <<idx_info, fmarket, lines, k, info, alerts, calls, report, raised,
                deviations>>

(***************************************************************************)
(* Bounds of the model.                                                     *)
(***************************************************************************)
MaxLen == 5          \* longest text of a direct chunk_text call
MaxLimit == 3        \* largest limit of a direct chunk_text call
MaxChunks == 5       \* chunks a run of the cutting loop may collect
NumSymbols == 2      \* watchlist entries a run of build_report iterates
MaxDeviations == 2   \* unusual provider answers in one run

(***************************************************************************)
(* Python values.                                                           *)
(***************************************************************************)
None == <<>>
Some(v) == <<v>>
Val(x) == x[1]
\* truth value of an optional number: None and 0 are false
Truthy(x) == x # None /\ x # Some(0)
\* x or y
Or(x, y) == IF Truthy(x) THEN x ELSE y

NL == "\n"
Chars == {"a", NL}

RECURSIVE Flatten(_)
\* "".join(seqs)
Flatten(seqs) == IF seqs = <<>> THEN <<>> ELSE Head(seqs) \o Flatten(Tail(seqs))

Max(S) == CHOOSE m \in S : \A n \in S : n <= m

(***************************************************************************)
(* chunk_text(s, limit)                                                     *)
(***************************************************************************)
\* rfind with the bound hi included: the last newline at or before the limit
rfind_inclusive(t, sub, lo, hi) ==
    LET top == IF hi + 1 < Len(t) THEN hi + 1 ELSE Len(t)
        hits == {j \in lo..(top - 1) : t[j + 1] = sub}
    IN  IF hits = {} THEN -1 ELSE Max(hits)

\* str.rfind(sub, lo, hi): highest 0-based index j with lo <= j < hi and
\* t[j] = sub, or -1
rfind(t, sub, lo, hi) ==
    LET top == IF hi < Len(t) THEN hi ELSE Len(t)
        hits == {j \in lo..(top - 1) : t[j + 1] = sub}
    IN  IF hits = {} THEN -1 ELSE Max(hits)

\* cut = cur.rfind("\n", 0, limit); if cut == -1: cut = limit
CutPoint(t, lim) ==
    LET cut == rfind(t, NL, 0, lim)
    IN  IF cut = -1 THEN lim ELSE cut

\* cur[:cut]
Prefix(t, cut) == SubSeq(t, 1, cut)

\* the rest without the character at the cut
Suffix_skip(t, cut) == SubSeq(t, cut + 2, Len(t))

\* cur[cut:]
Suffix(t, cut) == SubSeq(t, cut + 1, Len(t))

\* s = s or ""; if len(s) <= limit: return [s]; chunks = []; cur = s
ChunkEnter ==
    /\ pc = "chunk_text"
    /\ IF Len(s) <= limit
          THEN /\ chunks' = <<s>>
               /\ cur' = <<>>
               /\ pc' = "chunk_ret"
          ELSE /\ chunks' = <<>>
               /\ cur' = s
               /\ pc' = "chunk_loop"
    /\ UNCHANGED <<entry, s, limit, sendVars, stdout, configVars, reportVars>>

\* one iteration of: while len(cur) > limit
ChunkCut ==
    /\ pc = "chunk_loop"
    /\ Len(cur) > limit
    /\ Len(chunks) < MaxChunks
    /\ LET cut == CutPoint(cur, limit)
       IN  /\ chunks' = Append(chunks, Prefix(cur, cut))
           /\ cur' = Suffix(cur, cut)
    /\ UNCHANGED <<entry, pc, s, limit, sendVars, stdout, configVars, reportVars>>

\* loop exit: if cur: chunks.append(cur); return chunks
ChunkExit ==
    /\ pc = "chunk_loop"
    /\ Len(cur) <= limit
    /\ chunks' = IF cur # <<>> THEN Append(chunks, cur) ELSE chunks
    /\ pc' = "chunk_ret"
    /\ UNCHANGED <<entry, s, limit, cur, sendVars, stdout, configVars, reportVars>>

(***************************************************************************)
(* send_to_telegram(text)                                                   *)
(***************************************************************************)
TELEGRAM_LIMIT == 3500

\* print(x) and dbg(msg) write one entry each
Printed(t) == [tag |-> "print", body |-> t]
Debug(msg) == [tag |-> "dbg", body |-> <<msg>>]

\* what requests.post can do: answer with a status code, or raise
Replies == {[raises |-> FALSE, status_code |-> 200],
            [raises |-> FALSE, status_code |-> 400],
            [raises |-> TRUE, status_code |-> 0]}

\* the flag follows the latest reply only
OkAfter_last(flag, r) == ~r.raises /\ r.status_code = 200

\* if r.status_code != 200: ok = False / except Exception: ok = False
OkAfter(flag, r) == IF r.raises \/ r.status_code # 200 THEN FALSE ELSE flag

\* if not BOT_TOKEN or not CHAT_ID: print(text); return False
\* else: parts = chunk_text(text, 3500)
SendEnter ==
    /\ pc = "send_to_telegram"
    /\ IF ~BOT_TOKEN \/ ~CHAT_ID
          THEN /\ stdout' = stdout \o <<Debug("credentials missing"), Printed(text)>>
               /\ sent' = Some(FALSE)
               /\ pc' = "send_ret"
               /\ UNCHANGED <<s, limit>>
          ELSE /\ stdout' = Append(stdout, Debug("sending"))
               /\ s' = text
               /\ limit' = TELEGRAM_LIMIT
               /\ pc' = "chunk_text"
               /\ UNCHANGED sent
    /\ UNCHANGED <<entry, cur, chunks, text, parts, i, ok, posts, replies,
                   configVars, reportVars>>

\* chunk_text returned into send_to_telegram: parts = ...; ok = True
SendParts ==
    /\ pc = "chunk_ret"
    /\ entry # "chunk_text"
    /\ parts' = chunks
    /\ ok' = TRUE
    /\ i' = 1
    /\ pc' = "send_loop"
    /\ UNCHANGED <<entry, chunkVars, text, posts, replies, sent, stdout,
                   configVars, reportVars>>

\* one iteration of: for i, part in enumerate(parts, 1)
SendPost ==
    /\ pc = "send_loop"
    /\ i <= Len(parts)
    /\ \E r \in Replies :
          /\ posts' = Append(posts, parts[i])
          /\ replies' = Append(replies, r)
          /\ ok' = OkAfter(ok, r)
          /\ stdout' = Append(stdout, Debug(IF r.raises THEN "send error" ELSE "response"))
    /\ i' = i + 1
    /\ UNCHANGED <<entry, pc, chunkVars, text, parts, sent, configVars, reportVars>>

\* return ok
SendReturn ==
    /\ pc = "send_loop"
    /\ i > Len(parts)
    /\ sent' = Some(ok)
    /\ pc' = "send_ret"
    /\ UNCHANGED <<entry, chunkVars, text, parts, i, ok, posts, replies, stdout,
                   configVars, reportVars>>

(***************************************************************************)
(* Configuration and formatting helpers.                                    *)
(***************************************************************************)
SYMBOLS == <<"MBB", "HPG", "SSI", "PVP", "KSB", "QTP">>
PCT_ALERT_UP == 3
PCT_ALERT_DOWN == -3
VOL_SURGE_MULT == 2
MILLION == 1000000

\* the entries of SYMBOLS that the loops of a run visit
Watchlist == SubSeq(SYMBOLS, 1, NumSymbols)

\* n / d rounded to the nearest integer, ties to even (d > 0): what the
\* ".0f", ".1f" and ".2f" formats do with a quotient
RoundHalfEven(n, d) ==
    LET q == n \div d
        r == n % d
    IN  IF 2 * r < d THEN q
        ELSE IF 2 * r > d THEN q + 1
        ELSE IF q % 2 = 0 THEN q ELSE q + 1

\* A formatted field: the placeholder, or the number num / 10^places with a unit
Dash == [dash |-> TRUE, num |-> 0, places |-> 0, unit |-> ""]
Shown(n, p, u) == [dash |-> FALSE, num |-> n, places |-> p, unit |-> u]

\* f"{v/1_000_000:,.0f} Mn", "—" for None
fm_money_million(v) ==
    IF v = None THEN Dash ELSE Shown(RoundHalfEven(Val(v), MILLION), 0, "Mn")

\* f"{v/1_000_000:,.2f} Mn", "—" for None
fm_shares_million(v) ==
    IF v = None THEN Dash ELSE Shown(RoundHalfEven(100 * Val(v), MILLION), 2, "Mn")

\* f"{x:+.2f}%", "—" for None
fm_pct(x) ==
    IF x = None THEN Dash ELSE Shown(100 * Val(x), 2, "%")

\* dict.get(key)
Get(d, key) == IF key \in DOMAIN d THEN Some(d[key]) ELSE None

RECURSIVE OrChain(_)
\* a or b or ... : the first true operand, else the last operand
OrChain(xs) ==
    IF Len(xs) = 1 THEN xs[1] ELSE Or(xs[1], OrChain(Tail(xs)))

RECURSIVE Gets(_, _)
\* <<d.get(k1), d.get(k2), ...>>
Gets(d, keys) ==
    IF keys = <<>> THEN <<>> ELSE <<Get(d, Head(keys))>> \o Gets(d, Tail(keys))

RECURSIVE Join(_)
\* "\n".join(lines), every line standing for one character that is not "\n"
Join(ls) ==
    IF ls = <<>> THEN <<>>
    ELSE IF Len(ls) = 1 THEN <<ToString(ls[1])>>
    ELSE <<ToString(ls[1]), NL>> \o Join(Tail(ls))

(***************************************************************************)
(* What the providers can answer.                                           *)
(***************************************************************************)
IndexRecord(p) == [last |-> 1250, pct |-> p]

\* idx_info built from a vnstock index frame (None: no candidate answered)
VnIndexAnswers == {None, Some(IndexRecord(Some(1))), Some(IndexRecord(None))}

\* yf_get_index("^VNINDEX")
YfIndexAnswers == {Some(IndexRecord(Some(1))), None}
UsualIndex == Some(IndexRecord(Some(1)))

\* try_vn_foreign(None): None or a dict
MarketFlowAnswers ==
    {None,
     Some(<<>>),
     Some("buy" :> 5 * MILLION @@ "sell" :> 3 * MILLION),
     Some("buy" :> 5 * MILLION),
     Some("sell" :> 3 * MILLION),
     Some("buy" :> 0 @@ "sell" :> 3 * MILLION),
     Some("buy" :> 5 * MILLION @@ "sell" :> 0),
     Some("buy" :> 0 @@ "sell" :> 0),
     Some("buy_value" :> 5 * MILLION @@ "sell_value" :> 3 * MILLION),
     Some("total_buy" :> 3 * MILLION @@ "total_sell" :> 5 * MILLION),
     Some("buy_total" :> 0 @@ "sell_total" :> 3 * MILLION),
     Some("buy" :> 0 @@ "buy_total" :> 5 * MILLION @@ "sell" :> 3 * MILLION),
     Some("volume" :> 7)}

\* try_vn_foreign(symbol): None or a dict
SymbolFlowAnswers ==
    {None,
     Some("buy" :> 5 * MILLION @@ "sell" :> 3 * MILLION),
     Some("buy_value" :> 0 @@ "sell_total" :> 3 * MILLION)}

\* the dict yf_get_symbol returns (the fields build_report formats)
Snapshot(p, v, a5, av) ==
    [price |-> 10, pct |-> p, vol |-> v, avg5_price |-> a5, avg5_vol |-> av]

UsualSnapshot == Some(Snapshot(0, Some(3 * MILLION), Some(10), Some(2 * MILLION)))

\* yf_get_symbol(symbol): None, or a snapshot; avg5_vol is None when vol is
SymbolAnswers ==
    {None, UsualSnapshot}
    \cup {Some(Snapshot(p, Some(3 * MILLION), Some(10), Some(2 * MILLION))) :
             p \in {-4, -3, -2, 2, 3, 4}}
    \cup {Some(Snapshot(0, None, None, None)),
          Some(Snapshot(0, Some(4 * MILLION), None, None)),
          Some(Snapshot(0, Some(0), Some(10), Some(2 * MILLION))),
          Some(Snapshot(0, Some(4 * MILLION), Some(10), Some(2 * MILLION))),
          Some(Snapshot(0, Some(4 * MILLION), Some(10), Some(0))),
          Some(Snapshot(0, Some(0), Some(10), Some(0))),
          Some(Snapshot(3, Some(4 * MILLION), Some(10), Some(2 * MILLION))),
          Some(Snapshot(-3, Some(5 * MILLION), Some(10), Some(2 * MILLION)))}

\* 1 when a provider answer is not the usual one
Odd(answer, usual) == IF answer = usual THEN 0 ELSE 1

(***************************************************************************)
(* build_report()                                                           *)
(***************************************************************************)
HeaderLine == [tag |-> "header"]
BlankLine == [tag |-> "blank"]
DetailsTitle == [tag |-> "details_title"]
AlertsTitle == [tag |-> "alerts_title"]
NoAlertsLine == [tag |-> "no_alerts"]
FooterLine == [tag |-> "footer"]

MarketBuyKeys == <<"buy", "buy_value", "total_buy", "buy_total">>
MarketSellKeys == <<"sell", "sell_value", "total_sell", "sell_total">>
SymbolBuyKeys == <<"buy", "buy_value", "buy_total">>
SymbolSellKeys == <<"sell", "sell_value", "sell_total">>

\* f"{idx_info['pct']:+.2f}" raises TypeError when the value is None
IndexRaises(idx) == idx # None /\ Val(idx).pct = None

\* the VN-Index line
IndexLine(idx) ==
    IF idx # None
       THEN [tag |-> "index",
             last |-> Shown(100 * Val(idx).last, 2, ""),
             pct |-> Shown(100 * Val(Val(idx).pct), 2, "%"),
             gtgd |-> fm_money_million(None)]
       ELSE [tag |-> "index_error"]

\* fn = fb - fs if both are not None
NetFlow(fb, fs) == IF fb # None /\ fs # None THEN Some(Val(fb) - Val(fs)) ELSE None

\* the market-wide foreign-flow line; "if fmarket:" is false for None and {}
ForeignLine(fm) ==
    IF fm # None /\ DOMAIN Val(fm) # {}
       THEN LET fb == OrChain(Gets(Val(fm), MarketBuyKeys))
                fs == OrChain(Gets(Val(fm), MarketSellKeys))
            IN  [tag |-> "foreign",
                 buy |-> fm_money_million(fb),
                 sell |-> fm_money_million(fs),
                 net |-> fm_money_million(NetFlow(fb, fs))]
       ELSE [tag |-> "foreign_none"]

\* vol_ratio = (vol / avgvol20) if vol and avgvol20 else None, kept as a fraction
vol_ratio(vol, avgvol20) ==
    IF Truthy(vol) /\ Truthy(avgvol20)
       THEN Some([n |-> Val(vol), d |-> Val(avgvol20)])
       ELSE None

\* truth value of vol_ratio: None and 0.0 are false
RatioTruthy(vr) == vr # None /\ Val(vr).n # 0

\* vol_ratio_s = f" (VolRatio={vol_ratio:.2f}×)" if vol_ratio else ""
vol_ratio_s(vr) ==
    IF RatioTruthy(vr)
       THEN Some(Shown(RoundHalfEven(100 * Val(vr).n, Val(vr).d), 2, "x"))
       ELSE None

\* x if x else '—'
ValueOrDash(x) == IF Truthy(x) THEN Shown(Val(x), 0, "") ELSE Dash

\* the detail line of one symbol; fr is what try_vn_foreign(s) answered
DetailLine(sym, a, fr) ==
    LET fb == IF fr # None THEN OrChain(Gets(Val(fr), SymbolBuyKeys)) ELSE None
        fs == IF fr # None THEN OrChain(Gets(Val(fr), SymbolSellKeys)) ELSE None
    IN  IF a = None
           THEN [tag |-> "detail_error", sym |-> sym]
           ELSE [tag |-> "detail",
                 sym |-> sym,
                 price |-> ValueOrDash(Some(Val(a).price)),
                 pct |-> fm_pct(Some(Val(a).pct)),
                 vol |-> fm_shares_million(Val(a).vol),
                 ratio |-> vol_ratio_s(vol_ratio(Val(a).vol, Val(a).avg5_vol)),
                 avg5 |-> ValueOrDash(Val(a).avg5_price),
                 avgvol |-> fm_shares_million(Val(a).avg5_vol),
                 buy |-> fm_money_million(fb),
                 sell |-> fm_money_million(fs)]

Alert(kind, sym, value) == [tag |-> "alert", kind |-> kind, sym |-> sym, value |-> value]

\* the surge rules with strict comparisons
SurgeAlerts_strict(sym, pct) ==
    IF pct > PCT_ALERT_UP THEN <<Alert("SurgeUp", sym, fm_pct(Some(pct)))>>
    ELSE IF pct < PCT_ALERT_DOWN THEN <<Alert("SurgeDown", sym, fm_pct(Some(pct)))>>
    ELSE <<>>

\* if info['pct'] >= PCT_ALERT_UP: ... elif info['pct'] <= PCT_ALERT_DOWN: ...
SurgeAlerts(sym, pct) ==
    IF pct >= PCT_ALERT_UP THEN <<Alert("SurgeUp", sym, fm_pct(Some(pct)))>>
    ELSE IF pct <= PCT_ALERT_DOWN THEN <<Alert("SurgeDown", sym, fm_pct(Some(pct)))>>
    ELSE <<>>

\* if vol_ratio and vol_ratio >= VOL_SURGE_MULT: ... f"{vol_ratio:.1f}× TB"
SpikeAlerts(sym, vr) ==
    IF RatioTruthy(vr) /\ Val(vr).n >= VOL_SURGE_MULT * Val(vr).d
       THEN <<Alert("VolumeSpike", sym,
                    Shown(RoundHalfEven(10 * Val(vr).n, Val(vr).d), 1, "x"))>>
       ELSE <<>>

\* the alerts one iteration of the alert loop appends
AlertsFor(sym, a) ==
    IF a = None THEN <<>>
    ELSE SurgeAlerts(sym, Val(a).pct)
         \o SpikeAlerts(sym, vol_ratio(Val(a).vol, Val(a).avg5_vol))

\* header and market summary: vnstock index when enabled, else yf_get_index
BuildIndex ==
    /\ pc = "build_report"
    /\ \E vn \in (IF vns_on THEN VnIndexAnswers ELSE {None}), yf \in YfIndexAnswers :
          LET idx == IF vn # None THEN vn ELSE yf
              odd == Odd(vn, None) + (IF vn = None THEN Odd(yf, UsualIndex) ELSE 0)
          IN  /\ deviations + odd <= MaxDeviations
              /\ deviations' = deviations + odd
              /\ idx_info' = idx
              /\ IF IndexRaises(idx)
                    THEN /\ lines' = <<HeaderLine>>
                         /\ raised' = TRUE
                         /\ pc' = "main_except"
                    ELSE /\ lines' = <<HeaderLine, IndexLine(idx)>>
                         /\ raised' = FALSE
                         /\ pc' = "build_foreign"
    /\ UNCHANGED <<entry, chunkVars, sendVars, stdout, configVars, fmarket, k, info,
                   alerts, calls, report>>

\* market-level foreign flow, then the title of the detail section
BuildForeign ==
    /\ pc = "build_foreign"
    /\ \E fm \in (IF vns_on THEN MarketFlowAnswers ELSE {None}) :
          /\ deviations + Odd(fm, None) <= MaxDeviations
          /\ deviations' = deviations + Odd(fm, None)
          /\ fmarket' = fm
          /\ lines' = lines \o <<ForeignLine(fm), BlankLine, DetailsTitle>>
    /\ k' = 1
    /\ pc' = "detail_loop"
    /\ UNCHANGED <<entry, chunkVars, sendVars, stdout, configVars, idx_info, info,
                   alerts, calls, report, raised>>

\* one iteration of the first "for s in SYMBOLS"
BuildDetail ==
    /\ pc = "detail_loop"
    /\ k <= Len(Watchlist)
    /\ \E a \in SymbolAnswers, fr \in (IF vns_on THEN SymbolFlowAnswers ELSE {None}) :
          LET odd == Odd(a, UsualSnapshot) + Odd(fr, None)
          IN  /\ deviations + odd <= MaxDeviations
              /\ deviations' = deviations + odd
              /\ info' = a
              /\ calls' = Append(calls, Watchlist[k])
              /\ lines' = Append(lines, DetailLine(Watchlist[k], a, fr))
    /\ k' = k + 1
    /\ UNCHANGED <<entry, pc, chunkVars, sendVars, stdout, configVars, idx_info,
                   fmarket, alerts, report, raised>>

\* the first loop is over: title of the alert section, alerts = []
BuildAlertsTitle ==
    /\ pc = "detail_loop"
    /\ k > Len(Watchlist)
    /\ lines' = lines \o <<BlankLine, AlertsTitle>>
    /\ alerts' = <<>>
    /\ k' = 1
    /\ pc' = "alert_loop"
    /\ UNCHANGED <<entry, chunkVars, sendVars, stdout, configVars, idx_info, fmarket,
                   info, calls, report, raised, deviations>>

\* one iteration of the second "for s in SYMBOLS"
BuildAlert ==
    /\ pc = "alert_loop"
    /\ k <= Len(Watchlist)
    /\ \E a \in SymbolAnswers :
          /\ deviations + Odd(a, UsualSnapshot) <= MaxDeviations
          /\ deviations' = deviations + Odd(a, UsualSnapshot)
          /\ info' = a
          /\ calls' = Append(calls, Watchlist[k])
          /\ alerts' = alerts \o AlertsFor(Watchlist[k], a)
    /\ k' = k + 1
    /\ UNCHANGED <<entry, pc, chunkVars, sendVars, stdout, configVars, idx_info,
                   fmarket, lines, report, raised>>

\* the alert lines or the no-alert line, the footer, return "\n".join(lines)
BuildReturn ==
    /\ pc = "alert_loop"
    /\ k > Len(Watchlist)
    /\ lines' = lines \o (IF alerts # <<>> THEN alerts ELSE <<NoAlertsLine>>)
                      \o <<BlankLine, FooterLine>>
    /\ report' = Some(Join(lines'))
    /\ pc' = "main_print"
    /\ UNCHANGED <<entry, chunkVars, sendVars, stdout, configVars, idx_info, fmarket,
                   k, info, alerts, calls, raised, deviations>>

(***************************************************************************)
(* main()                                                                   *)
(***************************************************************************)
PreviewTitle == <<"=== Report preview ===">>
FatalText == <<"Fatal error:">>

\* print("=== Report preview ==="); print(report); sent = send_to_telegram(report)
MainPrint ==
    /\ pc = "main_print"
    /\ stdout' = stdout \o <<Printed(PreviewTitle), Printed(Val(report))>>
    /\ text' = Val(report)
    /\ pc' = "send_to_telegram"
    /\ UNCHANGED <<entry, chunkVars, parts, i, ok, posts, replies, sent, configVars,
                   reportVars>>

\* if sent: dbg("Report sent/attempted.") else: dbg("Report not sent.")
MainSent ==
    /\ pc = "send_ret"
    /\ entry = "main"
    /\ stdout' = Append(stdout, Debug(IF Val(sent) THEN "sent" ELSE "not sent"))
    /\ pc' = "done"
    /\ UNCHANGED <<entry, chunkVars, sendVars, configVars, reportVars>>

\* except Exception as e: print("Fatal error:", e); traceback.print_exc()
MainExcept ==
    /\ pc = "main_except"
    /\ stdout' = Append(stdout, Printed(FatalText))
    /\ pc' = "done"
    /\ UNCHANGED <<entry, chunkVars, sendVars, configVars, reportVars>>

(***************************************************************************)
(* Runs: a direct call of chunk_text, a direct call of send_to_telegram,    *)
(* or the script's main().                                                  *)
(***************************************************************************)
\* all texts over Chars of length at most n
Texts(n) == UNION {[1..m -> Chars] : m \in 0..n}

\* a text of n characters whose newlines are at the 1-based positions in P
MkText(n, P) == [j \in 1..n |-> IF j \in P THEN NL ELSE "a"]

SendLengths == {0, 3, TELEGRAM_LIMIT - 1, TELEGRAM_LIMIT, TELEGRAM_LIMIT + 1,
                TELEGRAM_LIMIT + 2, 2 * TELEGRAM_LIMIT + 1}
NewlineSpots == {1, 2, TELEGRAM_LIMIT, TELEGRAM_LIMIT + 1}
SendTexts == {MkText(n, P) : n \in SendLengths, P \in SUBSET NewlineSpots}

InitLocals ==
    /\ cur = <<>>
    /\ chunks = <<>>
    /\ parts = <<>>
    /\ i = 1
    /\ ok = TRUE
    /\ posts = <<>>
    /\ replies = <<>>
    /\ sent = None
    /\ stdout = <<>>
    /\ idx_info = None
    /\ fmarket = None
    /\ lines = <<>>
    /\ k = 1
    /\ info = None
    /\ alerts = <<>>
    /\ calls = <<>>
    /\ report = None
    /\ raised = FALSE
    /\ deviations = 0

InitChunk ==
    /\ entry = "chunk_text"
    /\ pc = "chunk_text"
    /\ s \in Texts(MaxLen)
    /\ limit \in 1..MaxLimit
    /\ text = <<>>
    /\ BOT_TOKEN = FALSE
    /\ CHAT_ID = FALSE
    /\ vns_on = FALSE
    /\ InitLocals

InitSend ==
    /\ entry = "send_to_telegram"
    /\ pc = "send_to_telegram"
    /\ text \in SendTexts
    /\ BOT_TOKEN \in BOOLEAN
    /\ CHAT_ID \in BOOLEAN
    /\ vns_on = FALSE
    /\ s = <<>>
    /\ limit = TELEGRAM_LIMIT
    /\ InitLocals

InitMain ==
    /\ entry = "main"
    /\ pc = "build_report"
    /\ BOT_TOKEN \in BOOLEAN
    /\ CHAT_ID \in BOOLEAN
    /\ vns_on \in BOOLEAN
    /\ s = <<>>
    /\ limit = TELEGRAM_LIMIT
    /\ text = <<>>
    /\ InitLocals

Init == InitChunk \/ InitSend \/ InitMain

Next ==
    \/ ChunkEnter
    \/ ChunkCut
    \/ ChunkExit
    \/ SendEnter
    \/ SendParts
    \/ SendPost
    \/ SendReturn
    \/ BuildIndex
    \/ BuildForeign
    \/ BuildDetail
    \/ BuildAlertsTitle
    \/ BuildAlert
    \/ BuildReturn
    \/ MainPrint
    \/ MainSent
    \/ MainExcept

Spec == Init /\ [][Next]_vars

(***************************************************************************)
(* Properties.                                                              *)
(***************************************************************************)
Min(S) == CHOOSE m \in S : \A n \in S : m <= n

\* the text that remained when chunk j was cut
Remaining(j) ==
    SubSeq(s, 1 + Len(Flatten(SubSeq(chunks, 1, j - 1))), Len(s))

\* 1-based positions of the newlines among the first lim characters of t
NewlinesWithin(t, lim) ==
    {p \in 1..(IF lim < Len(t) THEN lim ELSE Len(t)) : t[p] = NL}

\* chunk j is not the last chunk of the returned list
NonFinal(j) == pc = "chunk_loop" \/ j < Len(chunks)

\* C1: every chunk of chunk_text(s, L) has length <= L, and every non-final
\* chunk is the remaining text up to, not including, the last newline among
\* its first L characters, or its first L characters when these hold no
\* newline.
C1_ChunkShape ==
    \A j \in 1..Len(chunks) :
        /\ Len(chunks[j]) <= limit
        /\ NonFinal(j) =>
              LET rest == Remaining(j)
                  nls == NewlinesWithin(rest, limit)
              IN  chunks[j] = SubSeq(rest, 1, IF nls = {} THEN limit ELSE Max(nls) - 1)

\* a returned list with a non-empty chunk cut at a newline and a chunk cut hard
C1_Witness ==
    /\ entry = "chunk_text"
    /\ pc = "chunk_ret"
    /\ \E j \in 1..(Len(chunks) - 1) :
          /\ NewlinesWithin(Remaining(j), limit) # {}
          /\ chunks[j] # <<>>
    /\ \E j \in 1..(Len(chunks) - 1) : NewlinesWithin(Remaining(j), limit) = {}

\* C2: the chunks that chunk_text(s, L) returns, concatenated in order, are s.
C2_Concatenation == pc = "chunk_ret" => Flatten(chunks) = s

\* a returned list of three chunks, one of them cut at a newline
C2_Witness ==
    /\ pc = "chunk_ret"
    /\ Len(chunks) >= 3
    /\ \E j \in 2..Len(chunks) : Head(chunks[j]) = NL

\* C10: every iteration of the cutting loop shortens the remaining text.
C10_LoopProgress ==
    [][(pc = "chunk_loop" /\ chunks' # chunks /\ pc' = "chunk_loop")
          => Len(cur') < Len(cur)]_vars

Succeeded(r) == ~r.raises /\ r.status_code = 200

\* C3: with both credentials set, send_to_telegram posts parts[1], parts[2],
\* ... in this order, one post per part whatever the earlier replies were;
\* when it returns it has posted every chunk of chunk_text(text, 3500), and it
\* returns True exactly when every post answered 200 without raising.
C3_PostsInOrder ==
    (BOT_TOKEN /\ CHAT_ID) =>
        /\ Len(replies) = Len(posts)
        /\ Len(posts) <= Len(parts)
        /\ posts = SubSeq(parts, 1, Len(posts))
        /\ pc = "send_loop" => Len(posts) = i - 1
        /\ sent # None =>
              /\ s = text
              /\ parts = chunks
              /\ posts = parts
              /\ Val(sent) = (\A j \in 1..Len(replies) : Succeeded(replies[j]))

\* a return of False after a failed first post and a successful second post
C3_Witness ==
    /\ BOT_TOKEN /\ CHAT_ID
    /\ sent = Some(FALSE)
    /\ Len(posts) >= 2
    /\ ~Succeeded(replies[1])
    /\ Succeeded(replies[2])

\* number of print() calls that wrote exactly the text t
PrintCount(t) == Cardinality({j \in DOMAIN stdout : stdout[j] = Printed(t)})

\* C4: when BOT_TOKEN or CHAT_ID is missing, a run of main in which
\* build_report returned ends with no post made, send_to_telegram having
\* returned False, and the report text printed exactly once.
C4_PrintedOnce ==
    (entry = "main" /\ pc = "done" /\ report # None /\ ~(BOT_TOKEN /\ CHAT_ID)) =>
        /\ posts = <<>>
        /\ sent = Some(FALSE)
        /\ PrintCount(Val(report)) = 1

\* the fields of a line that show a value
Fields(line) ==
    IF line.tag = "index" THEN {line.last, line.pct, line.gtgd}
    ELSE IF line.tag = "foreign" THEN {line.buy, line.sell, line.net}
    ELSE IF line.tag = "detail"
         THEN {line.price, line.pct, line.vol, line.avg5, line.avgvol, line.buy, line.sell}
    ELSE {}

\* C5: whatever the providers answer, build_report does not raise, and the
\* report it returns has one detail line per watchlist symbol, in watchlist
\* order, every field of every line being a number or the placeholder.
C5_NeverRaises ==
    /\ ~raised
    /\ report # None =>
          LET details == SelectSeq(lines, LAMBDA l : l.tag \in {"detail", "detail_error"})
          IN  /\ Len(details) = Len(Watchlist)
              /\ \A j \in 1..Len(details) : details[j].sym = Watchlist[j]
              /\ \A j \in 1..Len(lines) : \A f \in Fields(lines[j]) : f.dash \in BOOLEAN

\* number of alerts of a kind that name sym
AlertCount(sym, kind) ==
    Cardinality({j \in DOMAIN alerts : alerts[j].sym = sym /\ alerts[j].kind = kind})

\* C6: after the alert loop has handled a symbol with a snapshot, the symbol
\* has one SurgeUp alert iff pct >= PCT_ALERT_UP, one SurgeDown alert iff pct
\* is below PCT_ALERT_UP and <= PCT_ALERT_DOWN, never both, and one
\* VolumeSpike alert iff vol and avg5_vol are present and vol / avg5_vol is
\* defined and >= VOL_SURGE_MULT; it has no other alert.
C6_AlertRules ==
    (pc = "alert_loop" /\ k > 1 /\ info # None) =>
        LET sym == Watchlist[k - 1]
            a == Val(info)
            up == a.pct >= PCT_ALERT_UP
            down == ~up /\ a.pct <= PCT_ALERT_DOWN
            spike == /\ a.vol # None
                     /\ a.avg5_vol # None
                     /\ Val(a.avg5_vol) # 0
                     /\ Val(a.vol) >= VOL_SURGE_MULT * Val(a.avg5_vol)
        IN  /\ AlertCount(sym, "SurgeUp") = (IF up THEN 1 ELSE 0)
            /\ AlertCount(sym, "SurgeDown") = (IF down THEN 1 ELSE 0)
            /\ AlertCount(sym, "SurgeUp") + AlertCount(sym, "SurgeDown") <= 1
            /\ AlertCount(sym, "VolumeSpike") = (IF spike THEN 1 ELSE 0)

\* a symbol at exactly the upper threshold and exactly the volume multiplier
\* carries a SurgeUp and a VolumeSpike alert
C6_Witness ==
    /\ pc = "alert_loop"
    /\ k > 1
    /\ info # None
    /\ Val(info).pct = PCT_ALERT_UP
    /\ Val(info).vol = Some(VOL_SURGE_MULT * Val(Val(info).avg5_vol))
    /\ AlertCount(Watchlist[k - 1], "SurgeUp") = 1
    /\ AlertCount(Watchlist[k - 1], "VolumeSpike") = 1

\* C7: the detail line of a symbol with a snapshot carries the volume-ratio
\* suffix iff vol and avg5_vol are both present and avg5_vol is not 0.
C7_RatioSuffix ==
    (pc = "detail_loop" /\ k > 1 /\ info # None) =>
        LET line == lines[Len(lines)]
            a == Val(info)
        IN  (line.ratio # None)
               <=> (a.vol # None /\ a.avg5_vol # None /\ Val(a.avg5_vol) # 0)

\* the value under the first of the keys that the dict holds
FirstPresent(d, keys) ==
    d[keys[Min({j \in 1..Len(keys) : keys[j] \in DOMAIN d})]]

HasAny(d, keys) == \E j \in 1..Len(keys) : keys[j] \in DOMAIN d

\* C8: when the market-wide record holds a buy value and a sell value, 0
\* included, the foreign-flow line shows their difference as net flow; when
\* one of them is missing the line shows no net flow.
C8_NetFlow ==
    (fmarket # None /\ Len(lines) >= 3) =>
        LET d == Val(fmarket)
            line == lines[3]
        IN  IF HasAny(d, MarketBuyKeys) /\ HasAny(d, MarketSellKeys)
               THEN /\ line.tag = "foreign"
                    /\ line.net = fm_money_million(
                          Some(FirstPresent(d, MarketBuyKeys) - FirstPresent(d, MarketSellKeys)))
               ELSE line.tag = "foreign" => line.net = Dash

\* C9: when build_report returns, yf_get_symbol has been called once per
\* watchlist symbol, in watchlist order.
C9_FetchedOnce == report # None => calls = Watchlist

====
